---- MODULE Spec2Model ----
(***************************************************************************)
(* Model of src/data/generate_product_attributes.py: the attribute         *)
(* derivation rules (get_price_band ... calculate_price_ratio), the per-row *)
(* loop of derive_attributes, and the run of main (connect, query, release, *)
(* derive, write product_attributes.csv).                                   *)
(*                                                                         *)
(* Python values are records [t, v, s]: t is the dynamic type, v the        *)
(* numeric payload, s the characters of a str.  A float is held in          *)
(* hundredths (v = 454 is 4.54); every float the functions round is rounded *)
(* to two places, and the inputs are drawn with at most two decimals.       *)
(***************************************************************************)
EXTENDS Integers, Sequences, FiniteSets, TLC

VARIABLES
    pc,        \* where the run of main is
    conn,      \* the database connection: "closed" or "open"
    connects,  \* connections acquired so far
    queries,   \* queries issued so far
    table,     \* what the join query selects (fixed for the run)
    df,        \* main's df, the frame fetch_product_base returned
    i,         \* rows of df the loop of derive_attributes has consumed
    results,   \* derive_attributes' list of output dicts
    attrs,     \* main's attrs, the frame derive_attributes returned
    written,   \* rows of attrs that to_csv has written
    file,      \* product_attributes.csv
    file0,     \* product_attributes.csv as it was before the run
    exc,       \* the exception in flight, "" when none
    call,      \* one call of one rule: its arguments and its outcome
    pair       \* two independent calls of derive_attributes

mainVars == <<pc, conn, connects, queries, table, df, i, results, attrs, written, file, file0, exc>>
vars == <<mainVars, call, pair>>

(***************************************************************************)
(* Python values                                                           *)
(***************************************************************************)
None == [t |-> "None", v |-> 0, s |-> <<>>]
NaN == [t |-> "nan", v |-> 0, s |-> <<>>]
NaT == [t |-> "NaT", v |-> 0, s |-> <<>>]
Inf(sign) == [t |-> "inf", v |-> sign, s |-> <<>>]
Float(h) == [t |-> "float", v |-> h, s |-> <<>>]
PyInt(n) == [t |-> "int", v |-> n, s |-> <<>>]
Bool(b) == [t |-> "bool", v |-> IF b THEN 1 ELSE 0, s |-> <<>>]
Str(chars) == [t |-> "str", v |-> 0, s |-> chars]
\* a Timestamp, of which the code reads .year and .month only
Timestamp(y, m) == [t |-> "ts", v |-> y * 100 + m, s |-> <<>>]

\* the outcome of a call: a returned value, or the exception that left it
Ret(x) == [exc |-> "", val |-> x]
Raise(e) == [exc |-> e, val |-> None]

\* pd.isna / pd.notna on a scalar
isna(x) == x.t \in {"None", "nan", "NaT"}
notna(x) == ~isna(x)

(***************************************************************************)
(* str methods                                                             *)
(***************************************************************************)
Whitespace == {" ", "\t"}

LowerChars ==
    <<"a","b","c","d","e","f","g","h","i","j","k","l","m",
      "n","o","p","q","r","s","t","u","v","w","x","y","z">>
UpperChars ==
    <<"A","B","C","D","E","F","G","H","I","J","K","L","M",
      "N","O","P","Q","R","S","T","U","V","W","X","Y","Z">>

UpperChar(c) ==
    IF \E k \in 1..Len(LowerChars) : LowerChars[k] = c
    THEN UpperChars[CHOOSE k \in 1..Len(LowerChars) : LowerChars[k] = c]
    ELSE c
LowerChar(c) ==
    IF \E k \in 1..Len(UpperChars) : UpperChars[k] = c
    THEN LowerChars[CHOOSE k \in 1..Len(UpperChars) : UpperChars[k] = c]
    ELSE c

upper(s) == [k \in 1..Len(s) |-> UpperChar(s[k])]
lower(s) == [k \in 1..Len(s) |-> LowerChar(s[k])]

RECURSIVE lstrip(_)
lstrip(s) ==
    IF s # <<>> /\ Head(s) \in Whitespace THEN lstrip(Tail(s)) ELSE s

RECURSIVE rstrip(_)
rstrip(s) ==
    IF s # <<>> /\ s[Len(s)] \in Whitespace
    THEN rstrip(SubSeq(s, 1, Len(s) - 1))
    ELSE s

strip(s) == rstrip(lstrip(s))

startswith(s, prefix) ==
    Len(s) >= Len(prefix) /\ SubSeq(s, 1, Len(prefix)) = prefix

\* str(x) of a value that is a str already (the only unit codes drawn that
\* are not missing values)
PyStr(x) == x.s

(***************************************************************************)
(* float(x)                                                                *)
(***************************************************************************)
Digits == <<"0","1","2","3","4","5","6","7","8","9">>
IsDigit(c) == \E k \in 1..Len(Digits) : Digits[k] = c
DigitVal(c) == (CHOOSE k \in 1..Len(Digits) : Digits[k] = c) - 1
AllDigits(s) == \A k \in 1..Len(s) : IsDigit(s[k])

RECURSIVE DigitsVal(_)
DigitsVal(s) ==
    IF s = <<>> THEN 0
    ELSE DigitsVal(SubSeq(s, 1, Len(s) - 1)) * 10 + DigitVal(s[Len(s)])

\* the first two decimals of a digit string, in hundredths
FracHundredths(s) ==
    (IF Len(s) >= 1 THEN DigitVal(s[1]) * 10 ELSE 0)
    + (IF Len(s) >= 2 THEN DigitVal(s[2]) ELSE 0)

\* the unsigned numeral d+[.d*] or .d+ (no exponent, no underscore: the
\* inputs drawn hold neither)
IsNumeral(s) ==
    LET dot == IF \E k \in 1..Len(s) : s[k] = "."
               THEN CHOOSE k \in 1..Len(s) : s[k] = "." /\ \A j \in 1..(k - 1) : s[j] # "."
               ELSE Len(s) + 1
        ip == SubSeq(s, 1, dot - 1)
        fp == SubSeq(s, dot + 1, Len(s))
    IN  AllDigits(ip) /\ AllDigits(fp) /\ Len(ip) + Len(fp) >= 1

NumeralVal(s) ==
    LET dot == IF \E k \in 1..Len(s) : s[k] = "."
               THEN CHOOSE k \in 1..Len(s) : s[k] = "." /\ \A j \in 1..(k - 1) : s[j] # "."
               ELSE Len(s) + 1
        ip == SubSeq(s, 1, dot - 1)
        fp == SubSeq(s, dot + 1, Len(s))
    IN  DigitsVal(ip) * 100 + FracHundredths(fp)

\* float(s) of a str: surrounding whitespace ignored, an optional sign, then
\* nan, inf, infinity (any case) or a decimal numeral; else ValueError
FloatOfStr(s) ==
    LET body == strip(s)
        signed == body # <<>> /\ Head(body) \in {"+", "-"}
        sign == IF signed /\ Head(body) = "-" THEN -1 ELSE 1
        rest == IF signed THEN Tail(body) ELSE body
        low == lower(rest)
    IN  IF low = <<"n","a","n">> THEN Ret(NaN)
        ELSE IF low = <<"i","n","f">> \/ low = <<"i","n","f","i","n","i","t","y">>
             THEN Ret(Inf(sign))
        ELSE IF IsNumeral(rest) THEN Ret(Float(sign * NumeralVal(rest)))
        ELSE Raise("ValueError")

PyFloat(x) ==
    CASE x.t = "float" -> Ret(x)
      [] x.t = "nan" -> Ret(x)
      [] x.t = "inf" -> Ret(x)
      [] x.t = "int" -> Ret(Float(x.v * 100))
      [] x.t = "bool" -> Ret(Float(x.v * 100))
      [] x.t = "str" -> FloatOfStr(x.s)
      [] OTHER -> Raise("TypeError")

\* x <= c and x < c for a number c given in hundredths: TypeError for a
\* value that is no number, False for nan
IsNumber(x) == x.t \in {"float", "int", "bool", "nan", "inf"}
Hundredths(x) == IF x.t = "float" THEN x.v ELSE x.v * 100

PyLe(x, c) ==
    CASE x.t = "nan" -> FALSE
      [] x.t = "inf" -> x.v < 0
      [] OTHER -> Hundredths(x) <= c

PyLt(x, c) ==
    CASE x.t = "nan" -> FALSE
      [] x.t = "inf" -> x.v < 0
      [] OTHER -> Hundredths(x) < c

\* round(n / d, 0) for d > 0, ties to even: what round(x, 2) gives for a
\* float x whose hundredths are n / d, when a tie is a binary fraction
RoundParts(q, r, d) ==
    IF 2 * r > d THEN q + 1
    ELSE IF 2 * r < d THEN q
    ELSE IF q % 2 = 0 THEN q ELSE q + 1

RoundDiv(n, d) == RoundParts(n \div d, n % d, d)

(***************************************************************************)
(* The str constants of the rules                                          *)
(***************************************************************************)
Winter == Str(<<"W","i","n","t","e","r">>)
Spring == Str(<<"S","p","r","i","n","g">>)
Summer == Str(<<"S","u","m","m","e","r">>)
Fall == Str(<<"F","a","l","l">>)
Band0 == Str(<<"0","-","1","0","0">>)
Band100 == Str(<<"1","0","0","-","5","0","0">>)
Band500 == Str(<<"5","0","0","-","1","5","0","0">>)
Band1500 == Str(<<"1","5","0","0","+">>)
Budget == Str(<<"B","u","d","g","e","t">>)
Standard == Str(<<"S","t","a","n","d","a","r","d">>)
Premium == Str(<<"P","r","e","m","i","u","m">>)
Luxury == Str(<<"L","u","x","u","r","y">>)
Bikes == Str(<<"B","i","k","e","s">>)
Components == Str(<<"C","o","m","p","o","n","e","n","t","s">>)
Clothing == Str(<<"C","l","o","t","h","i","n","g">>)
Accessories == Str(<<"A","c","c","e","s","s","o","r","i","e","s">>)
Performance == Str(<<"P","e","r","f","o","r","m","a","n","c","e">>)
Apparel == Str(<<"A","p","p","a","r","e","l">>)
Small == Str(<<"S","m","a","l","l">>)
Medium == Str(<<"M","e","d","i","u","m">>)
Large == Str(<<"L","a","r","g","e">>)

(***************************************************************************)
(* The derivation rules                                                    *)
(***************************************************************************)
get_season(month) ==
    IF month \in {12, 1, 2} THEN Winter
    ELSE IF month \in {3, 4, 5} THEN Spring
    ELSE IF month \in {6, 7, 8} THEN Summer
    ELSE IF month \in {9, 10, 11} THEN Fall
    ELSE None

get_price_band(price) ==
    IF ~IsNumber(price) THEN Raise("TypeError")
    ELSE IF PyLe(price, 10000) THEN Ret(Band0)
    ELSE IF PyLe(price, 50000) THEN Ret(Band100)
    ELSE IF PyLe(price, 150000) THEN Ret(Band500)
    ELSE Ret(Band1500)

\* get_brand_tier with the bounds of get_price_band
get_brand_tier_inclusive(price) ==
    IF ~IsNumber(price) THEN Raise("TypeError")
    ELSE IF PyLe(price, 10000) THEN Ret(Budget)
    ELSE IF PyLe(price, 50000) THEN Ret(Standard)
    ELSE IF PyLe(price, 150000) THEN Ret(Premium)
    ELSE Ret(Luxury)

get_brand_tier(price) ==
    IF ~IsNumber(price) THEN Raise("TypeError")
    ELSE IF PyLt(price, 10000) THEN Ret(Budget)
    ELSE IF PyLt(price, 50000) THEN Ret(Standard)
    ELSE IF PyLt(price, 150000) THEN Ret(Premium)
    ELSE Ret(Luxury)

get_marketing_segment(category) ==
    CASE category = Bikes -> Performance
      [] category = Components -> Components
      [] category = Clothing -> Apparel
      [] category = Accessories -> Accessories
      [] OTHER -> None

parse_size(size_value) ==
    LET f == PyFloat(size_value)
    IN  IF f.exc \in {"ValueError", "TypeError"} THEN None ELSE f.val

get_size_category(size_value) ==
    LET size_num == parse_size(size_value)
    IN  IF size_num = None THEN None
        ELSE IF PyLe(size_num, 4800) THEN Small
        ELSE IF PyLe(size_num, 5600) THEN Medium
        ELSE Large

\* 0.453592 as LbFactor / LbScale
LbFactor == 453592
LbScale == 1000000
GramsPerKg == 1000

\* round(weight_val * 0.453592, 2) in hundredths, the product taken in two
\* parts so that it stays within 32 bits
RoundLb(w) ==
    LET a == w \div 1000
        b == w % 1000
        qa == (a * LbFactor) \div 1000
        ra == (a * LbFactor) % 1000
        n == ra * 1000 + b * LbFactor
    IN  RoundParts(qa + (n \div LbScale), n % LbScale, LbScale)

\* round(x * k, 2) and round(x / k, 2) of a float that may be nan or inf
RoundScaled(x, finite) ==
    IF x.t = "float" THEN Float(finite) ELSE x

\* convert_weight_to_kg without the .upper() of line 123
convert_weight_to_kg_cased(weight, unit_code) ==
    IF isna(weight) THEN Ret(None)
    ELSE
      LET f == PyFloat(weight)
          weight_val == f.val
          unit == IF notna(unit_code) THEN strip(PyStr(unit_code)) ELSE <<>>
      IN  IF f.exc \in {"ValueError", "TypeError"} THEN Ret(None)
          ELSE IF startswith(unit, <<"L","B">>)
               THEN Ret(RoundScaled(weight_val, RoundLb(weight_val.v)))
          ELSE IF startswith(unit, <<"G">>)
               THEN Ret(RoundScaled(weight_val, RoundDiv(weight_val.v, GramsPerKg)))
          ELSE Ret(weight_val)

convert_weight_to_kg(weight, unit_code) ==
    IF isna(weight) THEN Ret(None)
    ELSE
      LET f == PyFloat(weight)
          weight_val == f.val
          unit == IF notna(unit_code) THEN upper(strip(PyStr(unit_code))) ELSE <<>>
      IN  IF f.exc \in {"ValueError", "TypeError"} THEN Ret(None)
          ELSE IF startswith(unit, <<"L","B">>)
               THEN Ret(RoundScaled(weight_val, RoundLb(weight_val.v)))
          ELSE IF startswith(unit, <<"G">>)
               THEN Ret(RoundScaled(weight_val, RoundDiv(weight_val.v, GramsPerKg)))
          ELSE Ret(weight_val)

\* float(list_price) / float(standard_cost), rounded to 2 places; the
\* divisor is > 0 here (the guard of line 137 returned for <= 0)
Quotient(p, c) ==
    CASE p.t = "nan" \/ c.t = "nan" -> NaN
      [] p.t = "inf" /\ c.t = "inf" -> NaN
      [] p.t = "inf" -> p
      [] c.t = "inf" -> Float(0)
      [] OTHER -> Float(RoundDiv(100 * p.v, c.v))

calculate_price_ratio(list_price, standard_cost) ==
    IF isna(standard_cost) THEN Ret(None)
    ELSE IF ~IsNumber(standard_cost) THEN Raise("TypeError")
    ELSE IF PyLe(standard_cost, 0) THEN Ret(None)
    ELSE
      LET p == PyFloat(list_price)
          c == PyFloat(standard_cost)
      IN  IF p.exc \in {"ValueError", "TypeError"} THEN Ret(None)
          ELSE Ret(Quotient(p.val, c.val))

(***************************************************************************)
(* The body of the loop of derive_attributes (lines 149-197)               *)
(***************************************************************************)
IsIsoDate(s) ==
    /\ Len(s) = 10
    /\ s[5] = "-" /\ s[8] = "-"
    /\ AllDigits(SubSeq(s, 1, 4)) /\ AllDigits(SubSeq(s, 6, 7))
    /\ AllDigits(SubSeq(s, 9, 10))
    /\ DigitsVal(SubSeq(s, 6, 7)) \in 1..12
    /\ DigitsVal(SubSeq(s, 9, 10)) \in 1..28

\* pd.to_datetime of a scalar: a missing value stays missing, a number is
\* nanoseconds since 1970, a str is parsed (the strs drawn are ISO dates or
\* are no dates at all) or raises
to_datetime(x) ==
    CASE x.t = "ts" -> Ret(x)
      [] x.t = "NaT" -> Ret(NaT)
      [] x.t = "None" -> Ret(None)
      [] x.t = "nan" -> Ret(NaT)
      [] x.t \in {"int", "float"} -> Ret(Timestamp(1970, 1))
      [] x.t = "str" ->
            IF IsIsoDate(x.s)
            THEN Ret(Timestamp(DigitsVal(SubSeq(x.s, 1, 4)), DigitsVal(SubSeq(x.s, 6, 7))))
            ELSE Raise("ValueError")
      [] OTHER -> Raise("TypeError")

year(ts) == ts.v \div 100
month(ts) == ts.v % 100

\* line 168 with price < 100
online_only_below(category, price) ==
    IF category # Accessories THEN Ret(Bool(FALSE))
    ELSE IF ~IsNumber(price) THEN Raise("TypeError")
    ELSE Ret(Bool(PyLt(price, 10000)))

\* line 168: row["category_name"] == "Accessories" and price <= 100
online_only(category, price) ==
    IF category # Accessories THEN Ret(Bool(FALSE))
    ELSE IF ~IsNumber(price) THEN Raise("TypeError")
    ELSE Ret(Bool(PyLe(price, 10000)))

\* the first exception of a sequence of outcomes, "" when none raised
RECURSIVE FirstExc(_)
FirstExc(outcomes) ==
    IF outcomes = <<>> THEN ""
    ELSE IF Head(outcomes).exc # "" THEN Head(outcomes).exc
    ELSE FirstExc(Tail(outcomes))

\* one iteration: the dict appended to results, or the exception raised
derive_row(row) ==
    LET sell_start == to_datetime(row.SellStartDate)
        sell_end == to_datetime(row.SellEndDate)
        launch_year == IF notna(sell_start.val) THEN PyInt(year(sell_start.val)) ELSE None
        mon == IF notna(sell_start.val) THEN month(sell_start.val) ELSE 0
        season == IF mon # 0 THEN get_season(mon) ELSE None
        price == row.ListPrice
        price_band == get_price_band(price)
        brand_tier == get_brand_tier(price)
        marketing_segment == get_marketing_segment(row.category_name)
        online == online_only(row.category_name, price)
        is_discontinued == Bool(notna(sell_end.val))
        size_category == get_size_category(row.Size)
        weight_kg == convert_weight_to_kg(row.Weight, row.WeightUnitMeasureCode)
        msrp_ratio == calculate_price_ratio(price, row.StandardCost)
        raised == FirstExc(<<sell_start, sell_end, price_band, brand_tier, online,
                             weight_kg, msrp_ratio>>)
    IN  IF raised # "" THEN Raise(raised)
        ELSE Ret([ProductID |-> row.ProductID,
                  MarketingSegment |-> marketing_segment,
                  BrandTier |-> brand_tier.val,
                  PriceBand |-> price_band.val,
                  OnlineOnly |-> online.val,
                  Season |-> season,
                  LaunchYear |-> launch_year,
                  SizeCategory |-> size_category,
                  WeightKg |-> weight_kg.val,
                  IsDiscontinued |-> is_discontinued,
                  SafetyStockLevel |-> row.SafetyStockLevel,
                  ReorderPoint |-> row.ReorderPoint,
                  MsrpToCostRatio |-> msrp_ratio.val])

\* results.insert(0, ...)
insert_first(list, item) == <<item>> \o list

\* results.append(...)
append(list, item) == Append(list, item)

(***************************************************************************)
(* pd.DataFrame(results) (line 199): each column gets one dtype.  A column *)
(* of ints stays int64; a column of numbers in which a float or a None     *)
(* occurs becomes float64, its ints floats and its Nones nan; any other    *)
(* column stays a column of objects.  No rows, no columns.                 *)
(***************************************************************************)
Columns ==
    {"ProductID", "MarketingSegment", "BrandTier", "PriceBand", "OnlineOnly", "Season",
     "LaunchYear", "SizeCategory", "WeightKg", "IsDiscontinued", "SafetyStockLevel",
     "ReorderPoint", "MsrpToCostRatio"}

ColumnTypes(list, col) == {list[k][col].t : k \in 1..Len(list)}

IsFloat64(list, col) ==
    /\ ColumnTypes(list, col) \subseteq {"int", "float", "nan", "inf", "None"}
    /\ ColumnTypes(list, col) \cap {"int", "float", "nan", "inf"} # {}
    /\ ColumnTypes(list, col) # {"int"}

AsFloat64(x) ==
    CASE x.t = "int" -> Float(x.v * 100)
      [] x.t = "None" -> NaN
      [] OTHER -> x

DataFrame(list) ==
    [k \in 1..Len(list) |->
        [col \in Columns |->
            IF IsFloat64(list, col) THEN AsFloat64(list[k][col]) ELSE list[k][col]]]

(***************************************************************************)
(* Inputs                                                                  *)
(***************************************************************************)
\* bound on the rows the query returns
MaxRows == 2

\* list prices and standard costs, in hundredths, around every threshold
PriceAmounts ==
    {-100, 0, 1, 100, 800, 9999, 10000, 10001, 30000, 49999, 50000, 50001,
     149999, 150000, 150001, 200000}
PriceValues ==
    {Float(h) : h \in PriceAmounts}
    \cup {None, NaN, Inf(1), PyInt(100), PyInt(101), Str(<<"a","b","c">>), Str(<<"1","0","0">>)}
CostValues ==
    {Float(h) : h \in {-100, 0, 1, 800, 10000, 30000}}
    \cup {None, NaN, PyInt(3), Str(<<"a","b","c">>), Str(<<"1","0","0">>)}

SizeValues ==
    {Str(<<>>), Str(<<"4","8">>), Str(<<"4","8",".","0","1">>), Str(<<"5","0">>), Str(<<"5","6">>), Str(<<"5","6",".","5">>), Str(<<"6","0">>), Str(<<" ","6","0"," ">>), Str(<<"-","1">>), Str(<<"M">>), Str(<<"L">>), Str(<<"X","L">>), Str(<<"n","a","n">>), Str(<<"N","a","N">>), Str(<<"i","n","f">>), Str(<<"4"," ","8">>), Str(<<"1",".","2",".","3">>), Str(<<".">>),
     None, NaN, Float(4800), Float(6000), PyInt(56), PyInt(57)}

\* weights in hundredths; 12500 G is a tie (0.125) that is a binary fraction
WeightAmounts == {-1000, 0, 1, 250, 1000, 1234, 12500, 100000, 226796}
WeightValues ==
    {Float(h) : h \in WeightAmounts}
    \cup {None, NaN, PyInt(10), Str(<<"1","0">>), Str(<<" ","2",".","5">>), Str(<<"a","b","c">>), Str(<<>>), Str(<<"n","a","n">>)}
UnitValues ==
    {Str(<<"L","B">>), Str(<<"L","B"," ">>), Str(<<" ","L","B">>), Str(<<"l","b">>), Str(<<"L","b","s">>), Str(<<"L">>), Str(<<"G">>), Str(<<"G"," "," ">>), Str(<<" ","g">>), Str(<<"G","R">>), Str(<<"K","G">>), Str(<<"O","Z">>), Str(<<>>), Str(<<" ">>), Str(<<"B","L","B">>),
     None, NaN}

CategoryValues ==
    {Bikes, Components, Clothing, Accessories, None, NaN,
     Str(<<"a","c","c","e","s","s","o","r","i","e","s">>), Str(<<"A","c","c","e","s","s","o","r","i","e","s"," ">>), Str(<<"O","t","h","e","r">>), Str(<<>>)}

Months == 0..13

DateValues ==
    {Timestamp(2011, 5), Timestamp(2012, 12), NaT, None,
     Str(<<"2","0","1","3","-","0","1","-","1","5">>), Str(<<"s","o","o","n">>)}

\* the values the fields of a row are drawn from when the loop body is called
\* on one row
RowPrices ==
    {Float(h) : h \in {9999, 10000, 10001, 49999, 50000, 50001, 149999, 150000, 150001}}
    \cup {None, NaN, Str(<<"a","b","c">>)}
RowCosts == {Float(10000), Float(0), None, Str(<<"a","b","c">>)}
RowSizes == {Str(<<"5","0">>), Str(<<"M">>), None}
RowWeights == {Float(1000), None, Str(<<"a","b","c">>)}
RowUnits == {Str(<<"L","B"," ">>), None}
RowCategories == {Accessories, Bikes, None, Str(<<"O","t","h","e","r">>)}
RowStarts == {Timestamp(2011, 5), NaT, Str(<<"s","o","o","n">>)}
RowEnds == {Timestamp(2012, 12), NaT}

Row(id, price, cost, size, weight, unit, start, end, cat) ==
    [ProductID |-> PyInt(id), ListPrice |-> price, StandardCost |-> cost, Size |-> size,
     Weight |-> weight, WeightUnitMeasureCode |-> unit, SellStartDate |-> start,
     SellEndDate |-> end, SafetyStockLevel |-> PyInt(500), ReorderPoint |-> PyInt(375),
     category_name |-> cat]

\* the rows the product table is filled from: two ordinary products, one of
\* them without a sell-start date, a second row with ProductID 1, and a row
\* whose list price is missing as None
RowPool ==
    {Row(1, Float(150000), Float(50000), Str(<<"5","8">>), Float(1000), Str(<<"L","B"," ">>),
         Timestamp(2011, 5), NaT, Bikes),
     Row(2, Float(10000), Float(4000), None, None, None, NaT, NaT, Accessories),
     Row(1, Float(2500), Float(1000), Str(<<"M">>), Float(50000), Str(<<"G"," "," ">>),
         Timestamp(2012, 12), Timestamp(2013, 6), Clothing),
     Row(3, None, Float(1000), None, None, None, Timestamp(2011, 5), NaT, Bikes)}

RECURSIVE SeqsUpTo(_, _)
SeqsUpTo(S, n) ==
    IF n = 0 THEN {<<>>}
    ELSE LET shorter == SeqsUpTo(S, n - 1)
         IN  shorter \cup {Append(q, x) : q \in shorter, x \in S}

Tables == SeqsUpTo(RowPool, MaxRows)

(***************************************************************************)
(* The run of main (lines 202-209)                                         *)
(***************************************************************************)
NoFile == [exists |-> FALSE, header |-> FALSE, rows |-> <<>>]

\* what an earlier run left at the path
OldFile ==
    [exists |-> TRUE, header |-> TRUE,
     rows |-> DataFrame(<<derive_row(CHOOSE r \in RowPool : r.ProductID = PyInt(2)).val>>)]

NoCall == [fn |-> "", args |-> <<>>, ret |-> Ret(None)]
NoRun == [df |-> <<>>, i |-> 0, results |-> <<>>, attrs |-> <<>>, st |-> "idle", exc |-> ""]
NoPair == [r \in 1..2 |-> NoRun]

MainIdle ==
    /\ pc = "idle" /\ conn = "closed" /\ connects = 0 /\ queries = 0
    /\ table = <<>> /\ df = <<>> /\ i = 0 /\ results = <<>> /\ attrs = <<>>
    /\ written = 0 /\ file = NoFile /\ file0 = NoFile /\ exc = ""

Init ==
    /\ pc = "start" /\ conn = "closed" /\ connects = 0 /\ queries = 0
    /\ table \in Tables
    /\ df = <<>> /\ i = 0 /\ results = <<>> /\ attrs = <<>> /\ written = 0
    /\ file0 \in {NoFile, OldFile} /\ file = file0
    /\ exc = ""
    /\ call = NoCall /\ pair = NoPair

\* line 41, engine.connect(): the connection is acquired
Connect ==
    /\ pc = "start"
    /\ conn' = "open" /\ connects' = connects + 1
    /\ pc' = "read_sql"
    /\ UNCHANGED <<queries, table, df, i, results, attrs, written, file, file0, exc, call, pair>>

\* line 41, engine.connect() raises: nothing was acquired, main ends
ConnectFail ==
    /\ pc = "start"
    /\ exc' = "OperationalError" /\ pc' = "failed"
    /\ UNCHANGED <<conn, connects, queries, table, df, i, results, attrs, written, file, file0, call, pair>>

\* line 42, pd.read_sql returns the frame
ReadSql ==
    /\ pc = "read_sql"
    /\ queries' = queries + 1
    /\ df' = table
    /\ pc' = "exit_with"
    /\ UNCHANGED <<conn, connects, table, i, results, attrs, written, file, file0, exc, call, pair>>

\* line 42, pd.read_sql raises inside the with block
ReadSqlFail ==
    /\ pc = "read_sql"
    /\ queries' = queries + 1
    /\ exc' = "DatabaseError"
    /\ pc' = "exit_with"
    /\ UNCHANGED <<conn, connects, table, df, i, results, attrs, written, file, file0, call, pair>>

\* a conn.close() after read_sql in place of the with block: an exception
\* passes it by
CloseAfterRead ==
    /\ pc = "exit_with"
    /\ conn' = IF exc = "" THEN "closed" ELSE conn
    /\ pc' = IF exc = "" THEN "derive" ELSE "failed"
    /\ UNCHANGED <<connects, queries, table, df, i, results, attrs, written, file, file0, exc, call, pair>>

\* line 41, the with block is left, by return or by exception: the
\* connection is released, and an exception in flight goes on to end main
ExitWith ==
    /\ pc = "exit_with"
    /\ conn' = "closed"
    /\ pc' = IF exc = "" THEN "derive" ELSE "failed"
    /\ UNCHANGED <<connects, queries, table, df, i, results, attrs, written, file, file0, exc, call, pair>>

\* lines 149-197, one iteration of the loop of derive_attributes
Iterate ==
    /\ pc = "derive" /\ i < Len(df)
    /\ LET r == derive_row(df[i + 1])
       IN  IF r.exc = ""
           THEN /\ results' = append(results, r.val)
                /\ i' = i + 1
                /\ UNCHANGED <<pc, exc>>
           ELSE /\ exc' = r.exc /\ pc' = "failed"
                /\ UNCHANGED <<results, i>>
    /\ UNCHANGED <<conn, connects, queries, table, df, attrs, written, file, file0, call, pair>>

\* line 199, the loop is over: derive_attributes returns the frame
ReturnFrame ==
    /\ pc = "derive" /\ i = Len(df)
    /\ attrs' = DataFrame(results)
    /\ pc' = "to_csv"
    /\ UNCHANGED <<conn, connects, queries, table, df, i, results, written, file, file0, exc, call, pair>>

\* line 207, to_csv opens out_path for writing: the file is created or cut
\* to nothing
OpenFile ==
    /\ pc = "to_csv"
    /\ file' = [exists |-> TRUE, header |-> FALSE, rows |-> <<>>]
    /\ pc' = "header"
    /\ UNCHANGED <<conn, connects, queries, table, df, i, results, attrs, written, file0, exc, call, pair>>

\* line 207, the open fails (no permission, no directory)
OpenFail ==
    /\ pc = "to_csv"
    /\ exc' = "OSError" /\ pc' = "failed"
    /\ UNCHANGED <<conn, connects, queries, table, df, i, results, attrs, written, file, file0, call, pair>>

\* missing values are written as empty fields
CsvCell(x) == IF isna(x) THEN Str(<<>>) ELSE x
CsvRow(rec) == [col \in Columns |-> CsvCell(rec[col])]

\* line 207, the header line: the names of the frame's columns (a frame
\* made from no dicts has none)
WriteHeader ==
    /\ pc = "header"
    /\ file' = [file EXCEPT !.header = (attrs # <<>>)]
    /\ pc' = "rows"
    /\ UNCHANGED <<conn, connects, queries, table, df, i, results, attrs, written, file0, exc, call, pair>>

\* line 207, one more row reaches the file
WriteRow ==
    /\ pc = "rows" /\ written < Len(attrs)
    /\ file' = [file EXCEPT !.rows = Append(@, CsvRow(attrs[written + 1]))]
    /\ written' = written + 1
    /\ UNCHANGED <<pc, conn, connects, queries, table, df, i, results, attrs, file0, exc, call, pair>>

\* line 207, a write fails (disk full, I/O error): to_csv raises with the
\* file as far as it got
WriteFail ==
    /\ pc \in {"header", "rows"}
    /\ exc' = "OSError" /\ pc' = "failed"
    /\ UNCHANGED <<conn, connects, queries, table, df, i, results, attrs, written, file, file0, call, pair>>

\* lines 207-209, the file is closed and the summary printed
Finish ==
    /\ pc = "rows" /\ written = Len(attrs)
    /\ pc' = "done"
    /\ UNCHANGED <<conn, connects, queries, table, df, i, results, attrs, written, file, file0, exc, call, pair>>

Next ==
    \/ Connect \/ ConnectFail \/ ReadSql \/ ReadSqlFail \/ ExitWith
    \/ Iterate \/ ReturnFrame
    \/ OpenFile \/ OpenFail \/ WriteHeader \/ WriteRow \/ WriteFail \/ Finish

Spec == Init /\ [][Next]_vars

(***************************************************************************)
(* The rules called one at a time, on every input drawn                    *)
(***************************************************************************)
InitFn == MainIdle /\ call = NoCall /\ pair = NoPair

Outcome(fn, args, ret) == [fn |-> fn, args |-> args, ret |-> ret]

CallGetSeason ==
    /\ call = NoCall
    /\ \E m \in Months : call' = Outcome("get_season", <<PyInt(m)>>, Ret(get_season(m)))
    /\ UNCHANGED <<mainVars, pair>>

CallGetPriceBand ==
    /\ call = NoCall
    /\ \E price \in PriceValues :
          call' = Outcome("get_price_band", <<price>>, get_price_band(price))
    /\ UNCHANGED <<mainVars, pair>>

CallGetBrandTier ==
    /\ call = NoCall
    /\ \E price \in PriceValues :
          call' = Outcome("get_brand_tier", <<price>>, get_brand_tier(price))
    /\ UNCHANGED <<mainVars, pair>>

CallGetMarketingSegment ==
    /\ call = NoCall
    /\ \E category \in CategoryValues :
          call' = Outcome("get_marketing_segment", <<category>>,
                          Ret(get_marketing_segment(category)))
    /\ UNCHANGED <<mainVars, pair>>

CallGetSizeCategory ==
    /\ call = NoCall
    /\ \E size_value \in SizeValues :
          call' = Outcome("get_size_category", <<size_value>>,
                          Ret(get_size_category(size_value)))
    /\ UNCHANGED <<mainVars, pair>>

CallConvertWeightToKg ==
    /\ call = NoCall
    /\ \E weight \in WeightValues, unit_code \in UnitValues :
          call' = Outcome("convert_weight_to_kg", <<weight, unit_code>>,
                          convert_weight_to_kg(weight, unit_code))
    /\ UNCHANGED <<mainVars, pair>>

CallCalculatePriceRatio ==
    /\ call = NoCall
    /\ \E list_price \in PriceValues, standard_cost \in CostValues :
          call' = Outcome("calculate_price_ratio", <<list_price, standard_cost>>,
                          calculate_price_ratio(list_price, standard_cost))
    /\ UNCHANGED <<mainVars, pair>>

\* the loop body on one row: every combination of a few values of each
\* field the rules read
CallDeriveRow ==
    /\ call = NoCall
    /\ \E price \in RowPrices, cost \in RowCosts, size \in RowSizes, weight \in RowWeights,
          unit \in RowUnits, start \in RowStarts, end \in RowEnds, cat \in RowCategories :
          LET row == Row(1, price, cost, size, weight, unit, start, end, cat)
          IN  call' = Outcome("derive_row", <<row>>, derive_row(row))
    /\ UNCHANGED <<mainVars, pair>>

NextFn ==
    \/ CallGetSeason \/ CallGetPriceBand \/ CallGetBrandTier \/ CallGetMarketingSegment
    \/ CallGetSizeCategory \/ CallConvertWeightToKg \/ CallCalculatePriceRatio
    \/ CallDeriveRow

SpecFn == InitFn /\ [][NextFn]_vars

(***************************************************************************)
(* Two calls of derive_attributes, on two frames, side by side             *)
(***************************************************************************)
InitPair ==
    /\ MainIdle /\ call = NoCall
    /\ \E dfs \in [1..2 -> Tables] :
          pair = [r \in 1..2 |-> [NoRun EXCEPT !.df = dfs[r], !.st = "loop"]]

\* lines 149-197, one iteration of the loop in call r
PairIterate(r) ==
    /\ pair[r].st = "loop" /\ pair[r].i < Len(pair[r].df)
    /\ LET out == derive_row(pair[r].df[pair[r].i + 1])
       IN  pair' = [pair EXCEPT ![r] =
                IF out.exc = ""
                THEN [@ EXCEPT !.results = append(@, out.val), !.i = @ + 1]
                ELSE [@ EXCEPT !.exc = out.exc, !.st = "raised"]]
    /\ UNCHANGED <<mainVars, call>>

\* line 199, call r returns its frame
PairReturn(r) ==
    /\ pair[r].st = "loop" /\ pair[r].i = Len(pair[r].df)
    /\ pair' = [pair EXCEPT ![r] = [@ EXCEPT !.attrs = DataFrame(pair[r].results), !.st = "returned"]]
    /\ UNCHANGED <<mainVars, call>>

NextPair == \E r \in 1..2 : PairIterate(r) \/ PairReturn(r)

SpecPair == InitPair /\ [][NextPair]_vars

(***************************************************************************)
(* Properties                                                              *)
(***************************************************************************)
\* derive_attributes has returned its frame to main
Returned == pc \in {"to_csv", "header", "rows", "done"} \/ (pc = "failed" /\ exc = "OSError")
Terminal == pc \in {"done", "failed"}

\* a value a derivation leaves empty: None, or the nan the frame holds for it
Empty(x) == isna(x)
\* a finite number, in hundredths
Finite(x) == x.t \in {"float", "int"}

\* C1: derive_attributes yields one output row per input row, in input
\* order: while the loop runs, results holds one dict for each of the i rows
\* consumed, the k-th carrying the ProductID of the k-th row of df; and the
\* frame it returns has as many rows as df, the k-th with the ProductID of
\* the k-th row of df.
C1_OneRowPerInputRow ==
    /\ Len(results) = i
    /\ i <= Len(df)
    /\ \A k \in 1..Len(results) : results[k].ProductID = df[k].ProductID
    /\ Returned =>
          /\ Len(attrs) = Len(df)
          /\ \A k \in 1..Len(attrs) : attrs[k].ProductID = df[k].ProductID

\* a frame of two rows with the same ProductID went through, in order
C1_Witness ==
    /\ pc = "done" /\ Len(df) = 2 /\ Len(attrs) = 2
    /\ df[1].ProductID = df[2].ProductID /\ df[1] # df[2]
    /\ attrs[1].MarketingSegment = Performance /\ attrs[2].MarketingSegment = Apparel

\* C2: the loop body is total: on every row it returns (never raises), and
\* each field whose input is missing or cannot be parsed comes out empty.
C2_EveryDerivationTotal ==
    call.fn = "derive_row" =>
        LET row == call.args[1]
            out == call.ret.val
        IN  /\ call.ret.exc = ""
            /\ ~Finite(row.ListPrice) => Empty(out.PriceBand) /\ Empty(out.BrandTier)
            /\ ~Finite(row.StandardCost) => Empty(out.MsrpToCostRatio)
            /\ PyFloat(row.Size).exc # "" => Empty(out.SizeCategory)
            /\ (isna(row.Weight) \/ PyFloat(row.Weight).exc # "") => Empty(out.WeightKg)
            /\ isna(row.SellStartDate) => Empty(out.Season) /\ Empty(out.LaunchYear)
            /\ isna(row.category_name) => Empty(out.MarketingSegment)

\* C3: when main has ended, product_attributes.csv is either as it was
\* before the run or holds the whole output, the header and one row for
\* each product; a run that ended normally left the whole output.
C3_AllOrNothing ==
    Terminal =>
        LET whole == file.exists /\ file.header /\ Len(file.rows) = Len(table)
        IN  /\ file = file0 \/ whole
            /\ pc = "done" => whole

BandIndex(b) ==
    CASE b = Band0 -> 0 [] b = Band100 -> 1 [] b = Band500 -> 2 [] b = Band1500 -> 3
TierIndex(b) ==
    CASE b = Budget -> 0 [] b = Standard -> 1 [] b = Premium -> 2 [] b = Luxury -> 3

\* C4: PriceBand has inclusive upper bounds 100, 500, 1500 and BrandTier
\* exclusive ones, so the tier is one step above the band at exactly the
\* prices 100, 500 and 1500 and level with it at every other price.
C4_BandInclusiveTierExclusive ==
    /\ (call.fn = "get_price_band" /\ Finite(call.args[1])) =>
          LET p == Hundredths(call.args[1])
          IN  call.ret = Ret(IF p <= 10000 THEN Band0 ELSE IF p <= 50000 THEN Band100
                             ELSE IF p <= 150000 THEN Band500 ELSE Band1500)
    /\ (call.fn = "get_brand_tier" /\ Finite(call.args[1])) =>
          LET p == Hundredths(call.args[1])
          IN  call.ret = Ret(IF p < 10000 THEN Budget ELSE IF p < 50000 THEN Standard
                             ELSE IF p < 150000 THEN Premium ELSE Luxury)
    /\ (call.fn = "derive_row" /\ call.ret.exc = "") =>
          LET price == call.args[1].ListPrice
              out == call.ret.val
          IN  TierIndex(out.BrandTier) - BandIndex(out.PriceBand)
                = IF price \in {Float(10000), Float(50000), Float(150000)} THEN 1 ELSE 0

\* a row priced 100 came out in band 0-100 and tier Standard
C4_Witness ==
    /\ call.fn = "derive_row" /\ call.ret.exc = ""
    /\ call.args[1].ListPrice = Float(10000)
    /\ call.ret.val.PriceBand = Band0 /\ call.ret.val.BrandTier = Standard

\* C5: OnlineOnly is true exactly when the category name is "Accessories"
\* and the list price is at most 100, and false for every other category
\* name, a missing one included.
C5_OnlineOnlyIffAccessoryUpTo100 ==
    (call.fn = "derive_row" /\ call.ret.exc = "") =>
        LET row == call.args[1]
        IN  call.ret.val.OnlineOnly
              = Bool(/\ row.category_name = Accessories
                     /\ Finite(row.ListPrice)
                     /\ Hundredths(row.ListPrice) <= 10000)

\* an accessory priced exactly 100 came out online-only
C5_Witness ==
    /\ call.fn = "derive_row" /\ call.ret.exc = ""
    /\ call.args[1].category_name = Accessories
    /\ call.args[1].ListPrice = Float(10000)
    /\ call.ret.val.OnlineOnly = Bool(TRUE)

\* r is w * 0.453592 to the nearest hundredth (both in hundredths)
NearestLb(w, r) ==
    LET d == w * (LbFactor \div 8) - r * (LbScale \div 8)
    IN  2 * d <= LbScale \div 8 /\ -2 * d <= LbScale \div 8
\* r is w / 1000 to the nearest hundredth
NearestG(w, r) == 2 * (w - r * GramsPerKg) <= GramsPerKg /\ -2 * (w - r * GramsPerKg) <= GramsPerKg

\* what the conversion must give for weight and the unit text unit
WeightKgAsClaimed(weight, unit, ret) ==
    IF isna(weight) \/ PyFloat(weight).exc # "" THEN ret = Ret(None)
    ELSE
      LET weight_val == PyFloat(weight).val
      IN  /\ ret.exc = ""
          /\ IF weight_val.t # "float" THEN ret.val = weight_val
             ELSE /\ ret.val.t = "float"
                  /\ IF startswith(upper(unit), <<"L","B">>)
                     THEN IF weight_val.v <= 30000 /\ weight_val.v >= -30000
                          THEN NearestLb(weight_val.v, ret.val.v)
                          ELSE ret.val.v = RoundLb(weight_val.v)
                     ELSE IF startswith(upper(unit), <<"G">>)
                     THEN NearestG(weight_val.v, ret.val.v)
                     ELSE ret.val.v = weight_val.v

UnitText(unit_code) == IF isna(unit_code) THEN <<>> ELSE unit_code.s

\* C6 as claimed: the conversion is chosen by the case-insensitive prefix of
\* the unit code as given (LB first, then G, else unchanged), the result
\* rounded to 2 places, and a missing or unparseable weight gives empty.
C6_PrefixOfUnitCode ==
    call.fn = "convert_weight_to_kg" =>
        WeightKgAsClaimed(call.args[1], UnitText(call.args[2]), call.ret)

\* C6 amended: the conversion is chosen by the case-insensitive prefix of
\* the unit code with its leading and trailing whitespace removed; 10 LB
\* gives 4.54, 1000 G gives 1.0, 5 with no unit gives 5.0.
C6_PrefixOfStrippedUnitCode ==
    /\ call.fn = "convert_weight_to_kg" =>
          WeightKgAsClaimed(call.args[1], strip(UnitText(call.args[2])), call.ret)
    /\ (call.fn = "convert_weight_to_kg" /\ call.args[1] = Float(1000)
        /\ call.args[2] = Str(<<"L","B">>)) => call.ret = Ret(Float(454))
    /\ (call.fn = "convert_weight_to_kg" /\ call.args[1] = Float(100000)
        /\ call.args[2] = Str(<<"G">>)) => call.ret = Ret(Float(100))
    /\ (call.fn = "convert_weight_to_kg" /\ call.args[1] = Float(1000)
        /\ call.args[2] \in {None, Str(<<>>)}) => call.ret = Ret(Float(1000))

\* 10 pounds with the unit code written " LB" came out as 4.54
C6_Witness ==
    /\ call.fn = "convert_weight_to_kg"
    /\ call.args[1] = Float(1000) /\ call.args[2] = Str(<<" ","L","B">>)
    /\ call.ret = Ret(Float(454))

\* C7: calculate_price_ratio never raises; it gives empty when the standard
\* cost is missing, not a number or <= 0, or the list price is no number,
\* and else the quotient to the nearest hundredth.
C7_RatioTotal ==
    call.fn = "calculate_price_ratio" =>
        LET list_price == call.args[1]
            standard_cost == call.args[2]
            r == call.ret
        IN  /\ r.exc = ""
            /\ (~IsNumber(standard_cost) \/ standard_cost.t = "nan") => r.val = None
            /\ (IsNumber(standard_cost) /\ PyLe(standard_cost, 0)) => r.val = None
            /\ PyFloat(list_price).exc # "" => r.val = None
            /\ (Finite(standard_cost) /\ Hundredths(standard_cost) > 0
                /\ PyFloat(list_price).exc = "" /\ PyFloat(list_price).val.t = "float") =>
                  LET d == 100 * PyFloat(list_price).val.v - r.val.v * Hundredths(standard_cost)
                  IN  2 * d <= Hundredths(standard_cost) /\ -2 * d <= Hundredths(standard_cost)

\* C8: get_size_category gives empty for a size that is missing or is no
\* number, Small up to 48, Medium above 48 up to 56, and Large above 56
\* only.
C8_SizeCategoryOfNumbersOnly ==
    call.fn = "get_size_category" =>
        LET size_value == call.args[1]
            f == PyFloat(size_value)
            number == ~isna(size_value) /\ f.exc = "" /\ f.val.t \in {"float", "inf"}
        IN  call.ret.val =
              IF ~number THEN None
              ELSE IF PyLe(f.val, 4800) THEN Small
              ELSE IF PyLe(f.val, 5600) THEN Medium
              ELSE Large

\* C9: the connection is acquired at most once and queried at most once, is
\* open only inside the with block of fetch_product_base, and is closed
\* again whenever main is past that block or has ended, by whichever path;
\* derivation and the file write begin only after one acquisition, one
\* query and the release.
C9_ConnectionReleasedBeforeDerivation ==
    /\ connects <= 1 /\ queries <= 1
    /\ conn = "open" => pc \in {"read_sql", "exit_with"}
    /\ pc \in {"read_sql", "exit_with"} => conn = "open" /\ connects = 1
    /\ conn = "open" => i = 0 /\ results = <<>> /\ attrs = <<>> /\ file = file0
    /\ pc \in {"derive", "to_csv", "header", "rows", "done"} =>
          conn = "closed" /\ connects = 1 /\ queries = 1
    /\ Terminal => conn = "closed"

\* the query failed and the connection was released all the same
C9_Witness ==
    pc = "failed" /\ exc = "DatabaseError" /\ connects = 1 /\ queries = 1 /\ conn = "closed"

\* C10: the output row of a product depends on that product's row alone:
\* when two calls of derive_attributes have returned and their frames hold
\* the same input row at some positions, the output rows at those positions
\* are identical as written to the file (a None and a nan are both an empty
\* field there).
C10_RowOutputIndependentOfOtherRows ==
    (pair[1].st = "returned" /\ pair[2].st = "returned") =>
        \A ka \in 1..Len(pair[1].df), kb \in 1..Len(pair[2].df) :
            pair[1].df[ka] = pair[2].df[kb] =>
                CsvRow(pair[1].attrs[ka]) = CsvRow(pair[2].attrs[kb])

====
